---- MODULE Spec2Model ----
(***************************************************************************)
(* Model of scripts/setup/generate-embeddings.py: the EmbeddingGenerator   *)
(* facade (construction, generate, generate_batch), its provider dispatch  *)
(* and its retry executor (_call_with_retry).                              *)
(*                                                                         *)
(* Strings that the code inspects (provider names, credentials) are        *)
(* sequences of one-character strings, so that lower() and strip() are     *)
(* computed, not assumed.  Texts to embed are opaque and are numbered.     *)
(* A provider adapter call is one request in flight; the remote service    *)
(* answers it with an ordered array of vectors (one per text sent, the     *)
(* adapter contract), with an HTTP error status, or with a body that lacks *)
(* the expected fields.                                                    *)
(***************************************************************************)
EXTENDS Integers, Sequences, FiniteSets, TLC

\* ------------------------------------------------------------------ bounds
\* Longest input list, counted in full chunks of the active provider's limit
\* (lists of up to MaxFullChunks * limit + 1 texts are tried).
MaxFullChunks == 2
\* Short input lists are enumerated exhaustively up to this length.
MaxShortLen == 2
\* Texts of the short lists are drawn from 0 .. NumShortTexts.
NumShortTexts == 1

\* ------------------------------------------------------- program constants
MAX_RETRIES == 3
\* BASE_DELAY_S = 0.5 seconds, in milliseconds.
BASE_DELAY_MS == 500

\* BATCH_LIMITS = {"elastic": 10, "openai": 100, "cohere": 96}
ELASTIC == <<"e", "l", "a", "s", "t", "i", "c">>
OPENAI == <<"o", "p", "e", "n", "a", "i">>
COHERE == <<"c", "o", "h", "e", "r", "e">>
Supported == {ELASTIC, OPENAI, COHERE}

\* BATCH_LIMITS[p]; 0 stands for "no entry" (the table holds positive limits).
BATCH_LIMITS(p) ==
    CASE p = ELASTIC -> 10
      [] p = OPENAI -> 100
      [] p = COHERE -> 96
      [] OTHER -> 0

\* BATCH_LIMITS.get(p, 10)
BatchLimitGet(p) == IF BATCH_LIMITS(p) = 0 THEN 10 ELSE BATCH_LIMITS(p)

\* ------------------------------------------------------------ Python values
\* A value that may be None (a result, a return value).
NoValue == [has |-> FALSE, val |-> <<>>]
Some(v) == [has |-> TRUE, val |-> v]

\* None, and an attribute that was never assigned.
None == <<"<None>">>
Unset == <<"<unset>">>

Falsy_noneOnly(s) == s = None

\* Python truthiness of an Optional[str]: None and "" are falsy.
Falsy(s) == s = None \/ s = <<>>

UpperChars == <<"A", "B", "C", "D", "E", "F", "G", "H", "I", "J", "K", "L", "M",
                "N", "O", "P", "Q", "R", "S", "T", "U", "V", "W", "X", "Y", "Z">>
LowerChars == <<"a", "b", "c", "d", "e", "f", "g", "h", "i", "j", "k", "l", "m",
                "n", "o", "p", "q", "r", "s", "t", "u", "v", "w", "x", "y", "z">>
Whitespace == {" ", "\t", "\n"}

LowerChar(c) ==
    IF \E k \in 1..Len(UpperChars) : UpperChars[k] = c
    THEN LowerChars[CHOOSE k \in 1..Len(UpperChars) : UpperChars[k] = c]
    ELSE c

\* str.lower()
Lower(s) == [k \in 1..Len(s) |-> LowerChar(s[k])]

RECURSIVE LStrip(_)
LStrip(s) ==
    IF s # <<>> /\ Head(s) \in Whitespace THEN LStrip(Tail(s)) ELSE s

RECURSIVE RStrip(_)
RStrip(s) ==
    IF s # <<>> /\ s[Len(s)] \in Whitespace
    THEN RStrip(SubSeq(s, 1, Len(s) - 1))
    ELSE s

\* A strip that removes leading whitespace only.
Strip_leftOnly(s) == LStrip(s)

\* str.strip()
Strip(s) == RStrip(LStrip(s))

\* ------------------------------------------------------------------ inputs
PSEUDO == <<"p", "s", "e", "u", "d", "o">>
BOGUS == <<"b", "o", "g", "u", "s">>
\* Provider names a caller or the environment may supply.
ProviderNames ==
    { <<>>, ELASTIC, OPENAI, COHERE, BOGUS,
      <<" ", "E", "l", "a", "s", "t", "i", "c", " ">>,
      <<"O", "P", "E", "N", "A", "I">>,
      <<"B", "o", "g", "u", "s", " ">>,
      <<" ", " ">> }
\* A credential read from the environment: absent, empty or some value.
CredValues == { None, <<>>, <<"k">> }
EnvNames == { "EMBEDDING_PROVIDER", "ELASTIC_URL", "ELASTIC_API_KEY",
              "OPENAI_API_KEY", "COHERE_API_KEY" }
Environments ==
    { en \in [EnvNames -> CredValues \cup ProviderNames \cup {None}] :
        /\ en["EMBEDDING_PROVIDER"] \in ProviderNames \cup {None}
        /\ \A n \in EnvNames \ {"EMBEDDING_PROVIDER"} : en[n] \in CredValues }

\* HTTP statuses a failed request may carry.
StatusCodes == { 400, 401, 403, 404, 429, 499, 500, 503, 599, 600 }
\* random.random() * BASE_DELAY_S, in milliseconds: a value of [0, 500).
JitterSamples == { 0, 250, 499 }

Min(a, b) == IF a < b THEN a ELSE b

ShortLists ==
    UNION { [1..n -> 0..NumShortTexts] : n \in 0..MaxShortLen }
\* Lengths around the chunk boundaries of limit k.
LongLengths(k) ==
    { c * k + d : c \in 1..MaxFullChunks, d \in {-1, 0, 1} } \ {0}
\* The lists handed to generate_batch: every short list, and lists of pairwise
\* distinct texts whose lengths straddle the chunk boundaries.
InputLists(k) ==
    ShortLists \cup { [j \in 1..n |-> 100 + j] : n \in LongLengths(k) }
InputTexts == 0..NumShortTexts

\* ----------------------------------------------------------- pure functions
\* pseudo_vector(text, dims): a value determined by (text, dims) alone.
pseudo_vector(text, dims) == [by |-> PSEUDO, of |-> text, dims |-> dims]

\* pseudo_vector of seed-reference-data.py (same seed, same generator), and
\* the default of its dims parameter.
seed_pseudo_vector(text, dims) == [by |-> PSEUDO, of |-> text, dims |-> dims]
SEED_DEFAULT_DIMS == 1024

\* os.getenv(name) and os.getenv(name, default)
getenv(en, name) == en[name]
getenv_default(en, name, default) == IF en[name] = None THEN default ELSE en[name]

\* What the remote service of provider p answers to a well-formed request:
\* one vector per text, in request order (the adapter contract).
AdapterResponse(p, req) == [k \in 1..Len(req) |-> [by |-> p, of |-> req[k]]]

Slice_short(texts, i, lim) == SubSeq(texts, i + 1, Min(i + lim - 1, Len(texts)))

\* texts[i : i + limit]
Slice(texts, i, lim) == SubSeq(texts, i + 1, Min(i + lim, Len(texts)))

Retryable_600(code) == code = 429 \/ (500 <= code /\ code <= 600)

\* retryable = e.code == 429 or (500 <= e.code < 600)
Retryable(code) == code = 429 \/ (500 <= code /\ code < 600)

MustRaise_late(att, retryable) == att = MAX_RETRIES + 1 \/ ~retryable

\* A retry executor that gives up on non-retryable errors only.
MustRaise_nonRetryableOnly(att, retryable) == ~retryable

\* if attempt == MAX_RETRIES or not retryable: raise
MustRaise(att, retryable) == att = MAX_RETRIES \/ ~retryable

RECURSIVE Pow2(_)
Pow2(n) == IF n = 0 THEN 1 ELSE 2 * Pow2(n - 1)

\* A backoff that grows linearly.
Delay_linear(att, jitter) == BASE_DELAY_MS * (att + 1) + jitter

\* delay = BASE_DELAY_S * (2 ** attempt) + random.random() * BASE_DELAY_S
Delay(att, jitter) == BASE_DELAY_MS * Pow2(att) + jitter

HTTPError(code) == [exc |-> "HTTPError", code |-> code]
KeyError == [exc |-> "KeyError", code |-> 0]
TypeError == [exc |-> "TypeError", code |-> 0]
NoError == [exc |-> "none", code |-> 0]

\* A credentials error that names no field.
MissingCredentials_anonymous(p, names) ==
    [exc |-> "ValueError", provider |-> p, requires |-> {},
     unknown |-> None, supported |-> {}]

\* ValueError raised by __init__; the message is kept as what it names.
MissingCredentials(p, names) ==
    [exc |-> "ValueError", provider |-> p, requires |-> names,
     unknown |-> None, supported |-> {}]
UnknownProvider_noList(p) ==
    [exc |-> "ValueError", provider |-> p, requires |-> {},
     unknown |-> p, supported |-> {}]
UnknownProvider(p) ==
    [exc |-> "ValueError", provider |-> p, requires |-> {},
     unknown |-> p, supported |-> Supported]
NoCtorError ==
    [exc |-> "none", provider |-> <<>>, requires |-> {},
     unknown |-> None, supported |-> {}]

\* ------------------------------------------------------------------- state
VARIABLES
    pc,               \* "new", "failed", "idle", "calling", "sleeping", "extend"
    provider_arg,     \* the provider argument handed to __init__
    environ,          \* os.environ
    _provider, _use_pseudo,
    _elastic_url, _elastic_api_key, _openai_api_key, _cohere_api_key,
    ctor_error,       \* the exception __init__ raised, if any
    op,               \* the public operation running or last run
    texts,            \* generate_batch's argument (for generate: [text])
    limit, i, all_embeddings,    \* generate_batch's locals
    chunk,            \* the texts handed to _call_provider
    in_retry,         \* a _call_with_retry frame is active
    attempt,          \* _call_with_retry's loop variable
    embeddings,       \* what _call_with_retry returned to generate_batch
    e,                \* the HTTPError bound by the except clause
    delay,            \* the argument of the time.sleep in progress
    outcome,          \* "none", "returned", "raised": how the operation ended
    ret,              \* the value returned to the caller
    error,            \* the exception raised to the caller
    in_flight,        \* provider requests sent and not yet answered
    attempts, fails, sleeps, only429,   \* history of this retry invocation
    invocations, totalCalls, totalSleeps,  \* history of this operation
    malformed         \* malformed responses received in this operation

ctorVars == <<provider_arg, environ, _provider, _use_pseudo, _elastic_url,
              _elastic_api_key, _openai_api_key, _cohere_api_key, ctor_error>>
batchVars == <<limit, i, all_embeddings>>
retryHist == <<attempts, fails, sleeps, only429>>
opHist == <<invocations, totalCalls, totalSleeps, malformed>>
vars == <<pc, ctorVars, op, texts, batchVars, chunk, in_retry, attempt,
          embeddings, e, delay, outcome, ret, error, in_flight, retryHist,
          opHist>>

InitWith(args, envs) ==
    /\ pc = "new"
    /\ provider_arg \in args
    /\ environ \in envs
    /\ _provider = Unset /\ _use_pseudo = FALSE
    /\ _elastic_url = Unset /\ _elastic_api_key = Unset
    /\ _openai_api_key = Unset /\ _cohere_api_key = Unset
    /\ ctor_error = NoCtorError
    /\ op = "none" /\ texts = <<>>
    /\ limit = 0 /\ i = 0 /\ all_embeddings = <<>>
    /\ chunk = <<>> /\ in_retry = FALSE /\ attempt = 0
    /\ embeddings = NoValue /\ e = NoError /\ delay = 0
    /\ outcome = "none" /\ ret = NoValue /\ error = NoError
    /\ attempts = 0 /\ fails = 0 /\ sleeps = 0 /\ only429 = TRUE
    /\ invocations = 0 /\ totalCalls = 0 /\ totalSleeps = 0
    /\ in_flight = 0 /\ malformed = 0

\* ------------------------------------------------------------- construction
\* The setting taking precedence over the argument.
ResolveProvider_envFirst(provider, en) ==
    Strip(Lower(IF Falsy(getenv_default(en, "EMBEDDING_PROVIDER", <<>>))
                THEN (IF provider = None THEN <<>> ELSE provider)
                ELSE getenv_default(en, "EMBEDDING_PROVIDER", <<>>)))

\* (provider or os.getenv("EMBEDDING_PROVIDER", "")).lower().strip()
ResolveProvider(provider, en) ==
    Strip(Lower(IF Falsy(provider)
                THEN getenv_default(en, "EMBEDDING_PROVIDER", <<>>)
                ELSE provider))

\* A constructor that accepts any non-empty provider name.
Construct_lenient ==
    /\ pc = "new"
    /\ LET p == ResolveProvider(provider_arg, environ) IN
       /\ _provider' = p
       /\ IF p = <<>>
          THEN /\ _use_pseudo' = TRUE
               /\ pc' = "idle"
               /\ ctor_error' = NoCtorError
               /\ UNCHANGED <<_elastic_url, _elastic_api_key,
                              _openai_api_key, _cohere_api_key>>
          ELSE
          /\ _use_pseudo' = FALSE
          /\ IF p = ELASTIC
             THEN /\ _elastic_url' = getenv(environ, "ELASTIC_URL")
                  /\ _elastic_api_key' = getenv(environ, "ELASTIC_API_KEY")
                  /\ UNCHANGED <<_openai_api_key, _cohere_api_key>>
                  /\ IF Falsy(_elastic_url') \/ Falsy(_elastic_api_key')
                     THEN /\ pc' = "failed"
                          /\ ctor_error' = MissingCredentials(
                                 p, {"ELASTIC_URL", "ELASTIC_API_KEY"})
                     ELSE /\ pc' = "idle"
                          /\ ctor_error' = NoCtorError
             ELSE IF p = OPENAI
             THEN /\ _openai_api_key' = getenv(environ, "OPENAI_API_KEY")
                  /\ UNCHANGED <<_elastic_url, _elastic_api_key, _cohere_api_key>>
                  /\ IF Falsy(_openai_api_key')
                     THEN /\ pc' = "failed"
                          /\ ctor_error' = MissingCredentials(p, {"OPENAI_API_KEY"})
                     ELSE /\ pc' = "idle"
                          /\ ctor_error' = NoCtorError
             ELSE IF p = COHERE
             THEN /\ _cohere_api_key' = getenv(environ, "COHERE_API_KEY")
                  /\ UNCHANGED <<_elastic_url, _elastic_api_key, _openai_api_key>>
                  /\ IF Falsy(_cohere_api_key')
                     THEN /\ pc' = "failed"
                          /\ ctor_error' = MissingCredentials(p, {"COHERE_API_KEY"})
                     ELSE /\ pc' = "idle"
                          /\ ctor_error' = NoCtorError
             ELSE /\ pc' = "idle"
                  /\ ctor_error' = NoCtorError
                  /\ UNCHANGED <<_elastic_url, _elastic_api_key,
                                 _openai_api_key, _cohere_api_key>>
    /\ UNCHANGED <<provider_arg, environ, op, texts, batchVars, chunk, in_retry,
                   attempt, embeddings, e, delay, outcome, ret, error,
                   in_flight, retryHist, opHist>>

\* EmbeddingGenerator.__init__(provider)
Construct ==
    /\ pc = "new"
    /\ LET p == ResolveProvider(provider_arg, environ) IN
       /\ _provider' = p
       /\ IF p = <<>>
          THEN /\ _use_pseudo' = TRUE
               /\ pc' = "idle"
               /\ ctor_error' = NoCtorError
               /\ UNCHANGED <<_elastic_url, _elastic_api_key,
                              _openai_api_key, _cohere_api_key>>
          ELSE
          /\ _use_pseudo' = FALSE
          /\ IF p = ELASTIC
             THEN /\ _elastic_url' = getenv(environ, "ELASTIC_URL")
                  /\ _elastic_api_key' = getenv(environ, "ELASTIC_API_KEY")
                  /\ UNCHANGED <<_openai_api_key, _cohere_api_key>>
                  /\ IF Falsy(_elastic_url') \/ Falsy(_elastic_api_key')
                     THEN /\ pc' = "failed"
                          /\ ctor_error' = MissingCredentials(
                                 p, {"ELASTIC_URL", "ELASTIC_API_KEY"})
                     ELSE /\ pc' = "idle"
                          /\ ctor_error' = NoCtorError
             ELSE IF p = OPENAI
             THEN /\ _openai_api_key' = getenv(environ, "OPENAI_API_KEY")
                  /\ UNCHANGED <<_elastic_url, _elastic_api_key, _cohere_api_key>>
                  /\ IF Falsy(_openai_api_key')
                     THEN /\ pc' = "failed"
                          /\ ctor_error' = MissingCredentials(p, {"OPENAI_API_KEY"})
                     ELSE /\ pc' = "idle"
                          /\ ctor_error' = NoCtorError
             ELSE IF p = COHERE
             THEN /\ _cohere_api_key' = getenv(environ, "COHERE_API_KEY")
                  /\ UNCHANGED <<_elastic_url, _elastic_api_key, _openai_api_key>>
                  /\ IF Falsy(_cohere_api_key')
                     THEN /\ pc' = "failed"
                          /\ ctor_error' = MissingCredentials(p, {"COHERE_API_KEY"})
                     ELSE /\ pc' = "idle"
                          /\ ctor_error' = NoCtorError
             ELSE /\ pc' = "failed"
                  /\ ctor_error' = UnknownProvider(p)
                  /\ UNCHANGED <<_elastic_url, _elastic_api_key,
                                 _openai_api_key, _cohere_api_key>>
    /\ UNCHANGED <<provider_arg, environ, op, texts, batchVars, chunk, in_retry,
                   attempt, embeddings, e, delay, outcome, ret, error,
                   in_flight, retryHist, opHist>>

\* EmbeddingGenerator.provider_name
provider_name == IF _use_pseudo THEN PSEUDO ELSE _provider

\* --------------------------------------------------------------- operations
\* dims=384, the default of pseudo_vector
DEFAULT_DIMS == 384

\* The three adapters, when their request succeeds: the vectors extracted
\* from the response of their own service.
_embed_elastic(req) == AdapterResponse(ELASTIC, req)
_embed_openai(req) == AdapterResponse(OPENAI, req)
_embed_cohere(req) == AdapterResponse(COHERE, req)

_call_provider_swapped(p, req) ==
    IF p = ELASTIC THEN Some(_embed_elastic(req))
    ELSE IF p = OPENAI THEN Some(_embed_cohere(req))
    ELSE IF p = COHERE THEN Some(_embed_openai(req))
    ELSE NoValue

\* _call_provider(texts) when the request succeeds: the adapter of the bound
\* provider answers; for any other name no branch is taken and None results.
_call_provider(p, req) ==
    IF p = ELASTIC THEN Some(_embed_elastic(req))
    ELSE IF p = OPENAI THEN Some(_embed_openai(req))
    ELSE IF p = COHERE THEN Some(_embed_cohere(req))
    ELSE NoValue

InRange_short(att) == att < MAX_RETRIES

\* for attempt in range(MAX_RETRIES + 1): is there an iteration for `att`?
InRange(att) == att < MAX_RETRIES + 1

\* for i in range(0, len(texts), limit): is `start` an index of the loop?
InLoop(start, n) == start < n

extend_front(all, more) == more \o all
extend_replace(all, more) == more

\* all_embeddings.extend(embeddings)
extend(all, more) == all \o more

\* The operation returns val to its caller; its frames are gone.
Return(val) ==
    /\ pc' = "idle"
    /\ outcome' = "returned" /\ ret' = Some(val) /\ error' = NoError
    /\ limit' = 0 /\ i' = 0 /\ all_embeddings' = <<>>
    /\ chunk' = <<>> /\ in_retry' = FALSE /\ attempt' = 0
    /\ embeddings' = NoValue /\ e' = NoError /\ delay' = 0

Raise_partial(exc) == Return(all_embeddings)

\* An exception leaves the operation: nothing is returned, the frames (and
\* with them all_embeddings) are gone.
Raise(exc) ==
    /\ pc' = "idle"
    /\ outcome' = "raised" /\ ret' = NoValue /\ error' = exc
    /\ limit' = 0 /\ i' = 0 /\ all_embeddings' = <<>>
    /\ chunk' = <<>> /\ in_retry' = FALSE /\ attempt' = 0
    /\ embeddings' = NoValue /\ e' = NoError /\ delay' = 0

\* The request for `req` goes out (one more adapter call).
SendRequest(req) ==
    /\ pc' = "calling"
    /\ chunk' = req
    /\ in_flight' = in_flight + 1
    /\ totalCalls' = totalCalls + 1

\* A retry executor that goes on counting where the previous chunk stopped.
EnterRetry_carry(req, calls) ==
    /\ in_retry' = TRUE /\ attempt' = attempt
    /\ pc' = "calling" /\ chunk' = req
    /\ in_flight' = in_flight + 1
    /\ totalCalls' = calls + 1
    /\ attempts' = 1 /\ fails' = 0 /\ sleeps' = 0 /\ only429' = TRUE

\* self._call_with_retry(req): a new invocation of the retry executor, whose
\* first iteration (attempt 0) calls the adapter.
EnterRetry(req, calls) ==
    /\ in_retry' = TRUE /\ attempt' = 0
    /\ pc' = "calling" /\ chunk' = req
    /\ in_flight' = in_flight + 1
    /\ totalCalls' = calls + 1
    /\ attempts' = 1 /\ fails' = 0 /\ sleeps' = 0 /\ only429' = TRUE

\* generate(text)
Generate(text) ==
    /\ pc = "idle"
    /\ op' = "generate" /\ texts' = <<text>>
    /\ attempts' = 0 /\ fails' = 0 /\ sleeps' = 0 /\ only429' = TRUE
    /\ invocations' = 0 /\ totalSleeps' = 0 /\ malformed' = 0
    /\ IF _use_pseudo
       THEN /\ Return(pseudo_vector(text, DEFAULT_DIMS))
            /\ totalCalls' = 0
            /\ UNCHANGED in_flight
       ELSE /\ pc' = "calling" /\ chunk' = <<text>>
            /\ in_flight' = in_flight + 1
            /\ totalCalls' = 1
            /\ outcome' = "none" /\ ret' = NoValue /\ error' = NoError
            /\ in_retry' = FALSE /\ attempt' = 0
            /\ embeddings' = NoValue /\ e' = NoError /\ delay' = 0
            /\ UNCHANGED batchVars
    /\ UNCHANGED ctorVars

\* generate_batch without its empty-input return, sending a first chunk
\* before it looks at the length of the list.
GenerateBatch_eager(L) ==
    /\ pc = "idle"
    /\ op' = "generate_batch" /\ texts' = L
    /\ totalSleeps' = 0 /\ malformed' = 0
    /\ IF _use_pseudo
       THEN /\ Return([k \in 1..Len(L) |-> pseudo_vector(L[k], DEFAULT_DIMS)])
            /\ attempts' = 0 /\ fails' = 0 /\ sleeps' = 0 /\ only429' = TRUE
            /\ invocations' = 0 /\ totalCalls' = 0
            /\ UNCHANGED in_flight
       ELSE /\ limit' = BatchLimitGet(_provider)
            /\ i' = 0 /\ all_embeddings' = <<>>
            /\ EnterRetry(Slice(L, 0, limit'), 0)
            /\ invocations' = 1
            /\ outcome' = "none" /\ ret' = NoValue /\ error' = NoError
            /\ embeddings' = NoValue /\ e' = NoError /\ delay' = 0
    /\ UNCHANGED ctorVars

\* generate_batch without its pseudo-mode branch.
GenerateBatch_noPseudo(L) ==
    /\ pc = "idle"
    /\ op' = "generate_batch" /\ texts' = L
    /\ totalSleeps' = 0 /\ malformed' = 0
    /\ IF L = <<>>
       THEN /\ Return(<<>>)
            /\ attempts' = 0 /\ fails' = 0 /\ sleeps' = 0 /\ only429' = TRUE
            /\ invocations' = 0 /\ totalCalls' = 0
            /\ UNCHANGED in_flight
       ELSE /\ limit' = BatchLimitGet(_provider)
            /\ i' = 0 /\ all_embeddings' = <<>>
            /\ EnterRetry(Slice(L, 0, limit'), 0)
            /\ invocations' = 1
            /\ outcome' = "none" /\ ret' = NoValue /\ error' = NoError
            /\ embeddings' = NoValue /\ e' = NoError /\ delay' = 0
    /\ UNCHANGED ctorVars

\* generate_batch(texts)
GenerateBatch(L) ==
    /\ pc = "idle"
    /\ op' = "generate_batch" /\ texts' = L
    /\ totalSleeps' = 0 /\ malformed' = 0
    /\ IF L = <<>>
       THEN /\ Return(<<>>)
            /\ attempts' = 0 /\ fails' = 0 /\ sleeps' = 0 /\ only429' = TRUE
            /\ invocations' = 0 /\ totalCalls' = 0
            /\ UNCHANGED in_flight
       ELSE IF _use_pseudo
       THEN /\ Return([k \in 1..Len(L) |-> pseudo_vector(L[k], DEFAULT_DIMS)])
            /\ attempts' = 0 /\ fails' = 0 /\ sleeps' = 0 /\ only429' = TRUE
            /\ invocations' = 0 /\ totalCalls' = 0
            /\ UNCHANGED in_flight
       ELSE IF InLoop(0, Len(L))
       THEN /\ limit' = BatchLimitGet(_provider)
            /\ i' = 0 /\ all_embeddings' = <<>>
            /\ EnterRetry(Slice(L, 0, limit'), 0)
            /\ invocations' = 1
            /\ outcome' = "none" /\ ret' = NoValue /\ error' = NoError
            /\ embeddings' = NoValue /\ e' = NoError /\ delay' = 0
       ELSE /\ Return(<<>>)
            /\ attempts' = 0 /\ fails' = 0 /\ sleeps' = 0 /\ only429' = TRUE
            /\ invocations' = 0 /\ totalCalls' = 0
            /\ UNCHANGED in_flight
    /\ UNCHANGED ctorVars

\* The request in flight succeeds: _call_provider returns.
AdapterSuccess ==
    /\ pc = "calling"
    /\ in_flight' = in_flight - 1
    /\ LET r == _call_provider(_provider, chunk) IN
       IF in_retry
       THEN \* _call_with_retry: return self._call_provider(texts)
            /\ embeddings' = r
            /\ pc' = "extend" /\ in_retry' = FALSE
            /\ UNCHANGED <<batchVars, chunk, attempt, e, delay, outcome, ret, error>>
       ELSE \* generate: return self._call_provider([text])[0]
            IF ~r.has THEN Raise(TypeError) ELSE Return(r.val[1])
    /\ UNCHANGED <<ctorVars, op, texts, retryHist, opHist>>

\* A retry that does not wait: the next attempt is sent at once.
Backoff_noSleep(code) ==
    /\ delay' = 0 /\ e' = NoError
    /\ attempt' = attempt + 1
    /\ pc' = "calling"
    /\ in_flight' = in_flight
    /\ totalCalls' = totalCalls + 1
    /\ attempts' = attempts + 1
    /\ UNCHANGED <<sleeps, totalSleeps>>
    /\ UNCHANGED <<batchVars, chunk, in_retry, embeddings, outcome, ret, error>>

\* The except clause after a retryable failure with attempts left: the
\* request has ended, the delay is computed and time.sleep(delay) begins.
Backoff(code) ==
    /\ \E jitter \in JitterSamples : delay' = Delay(attempt, jitter)
    /\ e' = HTTPError(code)
    /\ pc' = "sleeping"
    /\ in_flight' = in_flight - 1
    /\ sleeps' = sleeps + 1
    /\ totalSleeps' = totalSleeps + 1
    /\ UNCHANGED <<attempts, totalCalls>>
    /\ UNCHANGED <<batchVars, chunk, in_retry, attempt,
                   embeddings, outcome, ret, error>>

\* The request in flight fails with HTTP status `code`.
AdapterHTTPError(code) ==
    /\ pc = "calling"
    /\ _provider \in Supported
    /\ IF in_retry
       THEN /\ fails' = fails + 1
            /\ only429' = (only429 /\ code = 429)
            /\ IF MustRaise(attempt, Retryable(code))
               THEN /\ Raise(HTTPError(code))
                    /\ in_flight' = in_flight - 1
                    /\ UNCHANGED <<attempts, sleeps, totalSleeps, totalCalls>>
               ELSE Backoff(code)
       ELSE /\ Raise(HTTPError(code))
            /\ in_flight' = in_flight - 1
            /\ UNCHANGED <<retryHist, totalSleeps, totalCalls>>
    /\ UNCHANGED <<ctorVars, op, texts, invocations, malformed>>

\* A malformed response treated as retryable: the executor backs off.
AdapterMalformed_retry ==
    /\ pc = "calling"
    /\ _provider \in Supported
    /\ malformed' = malformed + 1
    /\ IF in_retry /\ attempt < MAX_RETRIES
       THEN /\ fails' = fails + 1 /\ only429' = FALSE
            /\ \E jitter \in JitterSamples : delay' = Delay(attempt, jitter)
            /\ e' = KeyError
            /\ pc' = "sleeping"
            /\ in_flight' = in_flight - 1
            /\ sleeps' = sleeps + 1
            /\ totalSleeps' = totalSleeps + 1
            /\ UNCHANGED <<attempts, batchVars, chunk, in_retry, attempt,
                           embeddings, outcome, ret, error>>
       ELSE /\ Raise(KeyError)
            /\ in_flight' = in_flight - 1
            /\ UNCHANGED <<retryHist, totalSleeps>>
    /\ UNCHANGED <<ctorVars, op, texts, invocations, totalCalls>>

\* A malformed response that makes generate_batch skip the chunk and go on
\* with the next one.
AdapterMalformed_skip ==
    /\ pc = "calling"
    /\ _provider \in Supported
    /\ malformed' = malformed + 1
    /\ IF in_retry /\ InLoop(i + limit, Len(texts))
       THEN /\ i' = i + limit
            /\ chunk' = Slice(texts, i', limit)
            /\ pc' = "calling" /\ in_flight' = in_flight
            /\ attempt' = 0
            /\ attempts' = 1 /\ fails' = 0 /\ sleeps' = 0 /\ only429' = TRUE
            /\ invocations' = invocations + 1
            /\ totalCalls' = totalCalls + 1
            /\ UNCHANGED <<limit, all_embeddings, in_retry, embeddings, e,
                           delay, outcome, ret, error, totalSleeps>>
       ELSE /\ Raise(KeyError)
            /\ in_flight' = in_flight - 1
            /\ UNCHANGED <<retryHist, invocations, totalCalls, totalSleeps>>
    /\ UNCHANGED <<ctorVars, op, texts>>

\* A malformed response that makes the generator fall back to pseudo mode.
AdapterMalformed_fallback ==
    /\ pc = "calling"
    /\ _provider \in Supported
    /\ Raise(KeyError)
    /\ in_flight' = in_flight - 1
    /\ malformed' = malformed + 1
    /\ _use_pseudo' = TRUE
    /\ IF in_retry
       THEN /\ fails' = fails + 1 /\ only429' = FALSE
            /\ UNCHANGED <<attempts, sleeps>>
       ELSE UNCHANGED retryHist
    /\ UNCHANGED <<provider_arg, environ, _provider, _elastic_url,
                   _elastic_api_key, _openai_api_key, _cohere_api_key,
                   ctor_error, op, texts, invocations, totalCalls, totalSleeps>>

\* The request in flight is answered with a body that lacks the expected
\* fields: the adapter's subscript raises KeyError, which is no HTTPError.
AdapterMalformed ==
    /\ pc = "calling"
    /\ _provider \in Supported
    /\ Raise(KeyError)
    /\ in_flight' = in_flight - 1
    /\ malformed' = malformed + 1
    /\ IF in_retry
       THEN /\ fails' = fails + 1 /\ only429' = FALSE
            /\ UNCHANGED <<attempts, sleeps>>
       ELSE UNCHANGED retryHist
    /\ UNCHANGED <<ctorVars, op, texts, invocations, totalCalls, totalSleeps>>

\* time.sleep(delay) returns; the loop takes its next iteration, if any.
SleepDone ==
    /\ pc = "sleeping"
    /\ delay' = 0 /\ e' = NoError
    /\ IF InRange(attempt + 1)
       THEN /\ attempt' = attempt + 1
            /\ SendRequest(chunk)
            /\ attempts' = attempts + 1
            /\ UNCHANGED <<in_retry, embeddings>>
       ELSE \* the loop is exhausted: the function ends without a return
            /\ embeddings' = NoValue
            /\ pc' = "extend" /\ in_retry' = FALSE
            /\ UNCHANGED <<chunk, attempt, attempts, totalCalls, in_flight>>
    /\ UNCHANGED <<ctorVars, op, texts, batchVars, outcome, ret, error,
                   fails, sleeps, only429, invocations, totalSleeps, malformed>>

\* all_embeddings.extend(embeddings), then the next chunk or the return.
Extend ==
    /\ pc = "extend"
    /\ IF ~embeddings.has
       THEN /\ Raise(TypeError)
            /\ UNCHANGED <<retryHist, opHist, in_flight>>
       ELSE LET all == extend(all_embeddings, embeddings.val) IN
            IF InLoop(i + limit, Len(texts))
            THEN /\ all_embeddings' = all
                 /\ i' = i + limit
                 /\ EnterRetry(Slice(texts, i', limit), totalCalls)
                 /\ invocations' = invocations + 1
                 /\ embeddings' = NoValue
                 /\ UNCHANGED <<limit, e, delay, outcome, ret, error,
                                totalSleeps, malformed>>
            ELSE /\ Return(all)
                 /\ UNCHANGED <<retryHist, opHist, in_flight>>
    /\ UNCHANGED <<ctorVars, op, texts>>

\* ----------------------------------------------------------- specifications
Operate ==
    \/ \E text \in InputTexts : Generate(text)
    \/ \E L \in InputLists(BatchLimitGet(_provider)) : GenerateBatch(L)
    \/ AdapterSuccess
    \/ \E code \in StatusCodes : AdapterHTTPError(code)
    \/ AdapterMalformed
    \/ SleepDone
    \/ Extend

Next == Construct \/ Operate

\* Environments in which every credential is set, or none is.
UniformEnvironments ==
    { en \in Environments :
        /\ en["EMBEDDING_PROVIDER"] \in {None, COHERE}
        /\ \E v \in {None, <<"k">>} :
              \A n \in EnvNames \ {"EMBEDDING_PROVIDER"} : en[n] = v }
Init == InitWith({None, ELASTIC, OPENAI, BOGUS}, UniformEnvironments)

Spec == Init /\ [][Next]_vars

\* Every provider argument and every environment, with single-text calls.
OperateSingle ==
    \/ \E text \in InputTexts : Generate(text)
    \/ AdapterSuccess
    \/ \E code \in StatusCodes : AdapterHTTPError(code)
    \/ AdapterMalformed

NextConfig == Construct \/ OperateSingle

InitConfig == InitWith(ProviderNames \cup {None}, Environments)

SpecConfig == InitConfig /\ [][NextConfig]_vars

\* Batches of a generator for one provider and of one in pseudo mode, under
\* the assumption that every adapter call is answered and every sleep ends:
\* the program is sequential, so a step that is enabled and is its next step
\* is taken.
AdapterAnswers ==
    \/ AdapterSuccess
    \/ \E code \in StatusCodes : AdapterHTTPError(code)
    \/ AdapterMalformed

InitLive ==
    InitWith({None, ELASTIC},
             { en \in UniformEnvironments : en["EMBEDDING_PROVIDER"] = None })

\* generate_batch and the steps of its retry executor.
OperateBatch ==
    \/ \E L \in InputLists(BatchLimitGet(_provider)) : GenerateBatch(L)
    \/ AdapterAnswers
    \/ SleepDone
    \/ Extend

NextLive == Construct \/ OperateBatch

SpecLive ==
    /\ InitLive /\ [][NextLive]_vars
    /\ WF_vars(AdapterAnswers) /\ WF_vars(SleepDone) /\ WF_vars(Extend)

\* ------------------------------------------------------------------ claims
\* What the claims say, written without the model's own helpers.
ClaimedRetryable == {429} \cup (500..599)
ClaimedLimit(p) ==
    CASE p = ELASTIC -> 10 [] p = OPENAI -> 100 [] p = COHERE -> 96 [] OTHER -> 0
ProviderVector(p, t) == [by |-> p, of |-> t]
BatchDone == op = "generate_batch" /\ pc = "idle"
CeilDiv(n, k) == (n + k - 1) \div k

\* C1: in provider mode a generate_batch call on a non-empty list that
\* returns (every chunk's call succeeded in the end, perhaps after retries)
\* returns exactly one vector per input text, and the k-th vector is the one
\* the provider gave for the k-th text, also across several chunks.
C1_OrderPreserved ==
    (BatchDone /\ outcome = "returned" /\ ~_use_pseudo /\ texts # <<>>)
        => /\ ret.has
           /\ Len(ret.val) = Len(texts)
           /\ \A k \in 1..Len(texts) :
                 ret.val[k] = ProviderVector(_provider, texts[k])

C1_Witness ==
    /\ BatchDone /\ outcome = "returned" /\ ~_use_pseudo
    /\ Len(texts) > 2 * ClaimedLimit(_provider)
    /\ invocations = 3 /\ totalSleeps >= 1
    /\ ret.has /\ Len(ret.val) = Len(texts)

\* C2: a generate_batch call ends in one of two ways only: it returns one
\* vector per input text in order, or it raises and the caller receives no
\* vector at all (what earlier chunks produced is gone too); while the call
\* runs the caller holds nothing.
C2_AllOrNothing ==
    /\ (op = "generate_batch" /\ pc # "idle")
          => (outcome = "none" /\ ~ret.has)
    /\ BatchDone =>
          \/ /\ outcome = "returned" /\ error = NoError
             /\ ret.has
             /\ Len(ret.val) = Len(texts)
             /\ \A k \in 1..Len(texts) :
                   ret.val[k] = IF _use_pseudo
                                THEN pseudo_vector(texts[k], 384)
                                ELSE ProviderVector(_provider, texts[k])
          \/ /\ outcome = "raised" /\ error.exc # "none"
             /\ ~ret.has /\ ret.val = <<>>
             /\ all_embeddings = <<>>

C2_Witness ==
    /\ BatchDone /\ outcome = "raised"
    /\ invocations >= 2
    /\ ~ret.has

\* C3: every adapter call of generate_batch carries between 1 and k texts,
\* k being 10, 100 or 96 for elastic, openai or cohere; the chunk of the
\* c-th retry-executor invocation is the slice texts[(c-1)k : ck], and a
\* batch that succeeds has used exactly ceil(n/k) chunks.
C3_ChunkSizing ==
    /\ (op = "generate_batch" /\ pc \in {"calling", "sleeping"})
          => /\ limit = ClaimedLimit(_provider) /\ limit > 0
             /\ 1 <= Len(chunk) /\ Len(chunk) <= limit
             /\ i = (invocations - 1) * limit
             /\ Len(chunk) = Min(limit, Len(texts) - i)
             /\ \A j \in 1..Len(chunk) : chunk[j] = texts[i + j]
    /\ (BatchDone /\ outcome = "returned" /\ ~_use_pseudo /\ texts # <<>>)
          => invocations = CeilDiv(Len(texts), ClaimedLimit(_provider))

C3_Witness ==
    /\ op = "generate_batch" /\ pc = "calling"
    /\ _provider = COHERE
    /\ invocations = 3 /\ i = 192 /\ Len(chunk) = 1

\* C4: one invocation of the retry executor makes at most 4 adapter attempts;
\* when every attempt fails with 429 it raises that error after exactly 4
\* attempts and 3 sleeps, and no sleep follows the last failed attempt.
C4_RetryBound ==
    /\ attempts <= 4 /\ sleeps <= 3
    /\ (pc = "sleeping") => (attempts <= 3 /\ in_retry)
    /\ (op = "generate_batch" /\ invocations > 0 /\ only429 /\ fails = attempts
            /\ pc \notin {"calling", "sleeping"})
          => /\ BatchDone /\ outcome = "raised"
             /\ error = HTTPError(429)
             /\ attempts = 4 /\ sleeps = 3

C4_Witness ==
    /\ BatchDone /\ outcome = "raised" /\ error = HTTPError(429)
    /\ only429 /\ fails = 4 /\ attempts = 4 /\ sleeps = 3

\* C5: when the adapter fails with retryable statuses on the first j attempts
\* (0 <= j <= 3) and then succeeds, the retry executor returns that result
\* after exactly j+1 attempts and j sleeps; attempts and sleeps alternate.
C5_RetryThenSuccess ==
    /\ (pc = "extend")
          => /\ embeddings.has
             /\ embeddings.val = [k \in 1..Len(chunk) |->
                                     ProviderVector(_provider, chunk[k])]
             /\ fails \in 0..3
             /\ attempts = fails + 1 /\ sleeps = fails
    /\ (pc = "calling" /\ in_retry)
          => (attempts = sleeps + 1 /\ fails = sleeps /\ attempt = sleeps)
    /\ (pc = "sleeping")
          => (attempts = sleeps /\ fails = sleeps /\ attempt = sleeps - 1)

C5_Witness ==
    /\ pc = "extend" /\ embeddings.has
    /\ only429 /\ fails = 2 /\ attempts = 3 /\ sleeps = 2

\* C6: a status is retried if and only if it is 429 or in 500..599; any other
\* status is re-raised at once, on whichever attempt it occurs: no sleep
\* follows it and no further attempt is made (a first-attempt 401 gives one
\* attempt and no sleep).
C6_NonRetryable ==
    /\ \A code \in StatusCodes : Retryable(code) <=> code \in ClaimedRetryable
    /\ (pc = "sleeping") => (e.exc = "HTTPError" /\ e.code \in ClaimedRetryable)
    /\ (BatchDone /\ outcome = "raised" /\ error.exc = "HTTPError"
            /\ error.code \notin ClaimedRetryable)
          => /\ attempts = fails /\ sleeps = fails - 1
             /\ delay = 0
    /\ (BatchDone /\ outcome = "raised" /\ error = HTTPError(401) /\ fails = 1)
          => (attempts = 1 /\ sleeps = 0)

C6_Witness ==
    /\ BatchDone /\ outcome = "raised" /\ error = HTTPError(401)
    /\ fails = 3 /\ attempts = 3 /\ sleeps = 2

\* C7 (as claimed): in provider mode a transient HTTP error (429 or 5xx)
\* reaches the caller of generate and of generate_batch only when the retry
\* budget of 4 attempts and 3 sleeps is used up.
C7_TransientRecovered ==
    (pc = "idle" /\ ~_use_pseudo /\ outcome = "raised"
         /\ error.exc = "HTTPError" /\ error.code \in ClaimedRetryable)
        => /\ op = "generate_batch" => (attempts = 4 /\ sleeps = 3)
           /\ op = "generate" => (totalCalls = 4 /\ totalSleeps = 3)

\* C8: generate_batch([]) returns [] without any adapter call or sleep, in
\* pseudo mode and in provider mode.
C8_EmptyInput ==
    (op = "generate_batch" /\ texts = <<>>)
        => /\ pc = "idle" /\ outcome = "returned" /\ error = NoError
           /\ ret.has /\ ret.val = <<>>
           /\ totalCalls = 0 /\ totalSleeps = 0
           /\ invocations = 0 /\ attempts = 0 /\ sleeps = 0

C8_Witness ==
    /\ op = "generate_batch" /\ texts = <<>>
    /\ _provider = OPENAI /\ ~_use_pseudo
    /\ outcome = "returned" /\ ret.has /\ ret.val = <<>>

\* The provider name the constructor is given: its argument or, when that is
\* None or empty, the EMBEDDING_PROVIDER setting (empty when unset).
GivenName ==
    IF provider_arg # None /\ provider_arg # <<>>
    THEN provider_arg
    ELSE IF environ["EMBEDDING_PROVIDER"] = None
         THEN <<>>
         ELSE environ["EMBEDDING_PROVIDER"]
NormalisedName == Strip(Lower(GivenName))
Constructed == pc # "new"
NothingCalled == op = "none" /\ outcome = "none" /\ totalCalls = 0

\* C9 (as claimed): construction with any non-empty provider name outside
\* {elastic, openai, cohere} fails with an error naming that value and the
\* recognized set.
C9_UnknownProviderLiteral ==
    (Constructed /\ GivenName # <<>> /\ GivenName \notin {ELASTIC, OPENAI, COHERE})
        => /\ pc = "failed"
           /\ ctor_error.exc = "ValueError"
           /\ ctor_error.unknown = GivenName
           /\ ctor_error.supported = {ELASTIC, OPENAI, COHERE}

\* C9 (amended): construction with a provider name whose lower-cased,
\* whitespace-stripped form is non-empty and outside {elastic, openai, cohere}
\* fails with an error naming that normalised value and the recognized set;
\* no generator results and nothing is called.
C9_UnknownProviderNormalised ==
    (Constructed /\ NormalisedName # <<>>
         /\ NormalisedName \notin {ELASTIC, OPENAI, COHERE})
        => /\ pc = "failed"
           /\ ctor_error.exc = "ValueError"
           /\ ctor_error.unknown = NormalisedName
           /\ ctor_error.supported = {ELASTIC, OPENAI, COHERE}
           /\ NothingCalled

C9_Witness ==
    /\ pc = "failed"
    /\ GivenName = <<"B", "o", "g", "u", "s", " ">>
    /\ ctor_error.unknown = BOGUS
    /\ ctor_error.supported = {ELASTIC, OPENAI, COHERE}

RequiredCredentials(p) ==
    CASE p = ELASTIC -> {"ELASTIC_URL", "ELASTIC_API_KEY"}
      [] p = OPENAI -> {"OPENAI_API_KEY"}
      [] p = COHERE -> {"COHERE_API_KEY"}
      [] OTHER -> {}
PresentNonEmpty(name) == environ[name] # None /\ environ[name] # <<>>

\* C10: construction for elastic, openai or cohere succeeds exactly when
\* every credential of that provider is present and non-empty; otherwise it
\* fails with a configuration error and nothing has been called.
C10_CredentialsRequired ==
    (Constructed /\ NormalisedName \in {ELASTIC, OPENAI, COHERE})
        => /\ (pc # "failed") <=>
                 (\A c \in RequiredCredentials(NormalisedName) : PresentNonEmpty(c))
           /\ (pc = "failed")
                 => /\ ctor_error.exc = "ValueError"
                    /\ ctor_error.requires = RequiredCredentials(NormalisedName)
                    /\ NothingCalled
           /\ (pc # "failed")
                 => /\ ctor_error = NoCtorError
                    /\ ~_use_pseudo /\ _provider = NormalisedName

C10_Witness ==
    /\ pc = "failed" /\ _provider = ELASTIC
    /\ environ["ELASTIC_URL"] = <<"k">>
    /\ environ["ELASTIC_API_KEY"] = None
    /\ ctor_error.exc = "ValueError"

\* C11: once __init__ has returned, no step of generate or generate_batch
\* (successful, retrying or failing) changes the provider, the pseudo flag or
\* a credential field, so provider_name keeps its value.
ConfigFields ==
    <<_provider, _use_pseudo, _elastic_url, _elastic_api_key,
      _openai_api_key, _cohere_api_key>>
C11_ModeFixed ==
    [][Constructed =>
          (UNCHANGED ConfigFields /\ provider_name' = provider_name)]_vars

C11_Witness ==
    /\ BatchDone /\ outcome = "raised" /\ totalSleeps >= 1
    /\ _provider = ELASTIC /\ ~_use_pseudo
    /\ _elastic_url = <<"k">> /\ _elastic_api_key = <<"k">>
    /\ provider_name = ELASTIC

\* C12: in pseudo mode nothing is ever sent and nothing sleeps; generate
\* returns the deterministic vector of its text and generate_batch returns,
\* for a list of any length and without chunking, one deterministic vector of
\* dimension 384 per text, in input order.
C12_PseudoMode ==
    (Constructed /\ _use_pseudo)
        => /\ pc = "idle" /\ in_flight = 0 /\ delay = 0
           /\ totalCalls = 0 /\ totalSleeps = 0 /\ invocations = 0
           /\ attempts = 0 /\ sleeps = 0
           /\ (op = "generate")
                 => /\ outcome = "returned" /\ ret.has
                    /\ ret.val = [by |-> PSEUDO, of |-> texts[1], dims |-> 384]
           /\ (op = "generate_batch")
                 => /\ outcome = "returned" /\ ret.has
                    /\ Len(ret.val) = Len(texts)
                    /\ \A k \in 1..Len(texts) :
                          ret.val[k] = [by |-> PSEUDO, of |-> texts[k], dims |-> 384]

C12_Witness ==
    /\ _use_pseudo /\ op = "generate_batch" /\ outcome = "returned"
    /\ Len(texts) > 10
    /\ ret.has /\ Len(ret.val) = Len(texts)

\* C13: at most one provider request is in flight; inside a running
\* operation a request is sent only after the previous one has ended, either
\* as a retry of the same chunk once the backoff sleep is over, or for the
\* next chunk once the previous chunk's call has returned its result; chunks
\* are taken in increasing order.
C13_Sequential ==
    /\ [](in_flight \in {0, 1} /\ (in_flight = 1 <=> pc = "calling"))
    /\ [][(pc # "idle" /\ totalCalls' = totalCalls + 1)
            => /\ in_flight = 0
               /\ pc \in {"sleeping", "extend"}
               /\ (pc = "sleeping")
                     => /\ e.exc = "HTTPError"
                        /\ i' = i /\ chunk' = chunk
                        /\ attempt' = attempt + 1
               /\ (pc = "extend")
                     => /\ embeddings.has
                        /\ i' = i + limit /\ attempt' = 0]_vars
    /\ [][(pc # "idle" /\ pc' # "idle")
            => (i' = i \/ (pc = "extend" /\ i' = i + limit))]_vars

C13_Witness ==
    /\ op = "generate_batch" /\ pc = "calling" /\ in_flight = 1
    /\ invocations = 2 /\ attempt = 1 /\ totalCalls >= 3

\* C14: the provider is resolved once, by __init__: a non-empty argument
\* decides the mode whatever EMBEDDING_PROVIDER holds, without an argument
\* the setting decides, and an empty selection gives pseudo mode.
C14_ProviderSelection ==
    Constructed
        => /\ (provider_arg # None /\ provider_arg # <<>>)
                 => _provider = Strip(Lower(provider_arg))
           /\ (provider_arg = None)
                 => _provider =
                       IF environ["EMBEDDING_PROVIDER"] = None
                       THEN <<>>
                       ELSE Strip(Lower(environ["EMBEDDING_PROVIDER"]))
           /\ (_provider = <<>>)
                 => (_use_pseudo /\ pc # "failed" /\ provider_name = PSEUDO)
           /\ (_provider # <<>>) => ~_use_pseudo

C14_Witness ==
    /\ pc = "idle"
    /\ provider_arg = OPENAI /\ environ["EMBEDDING_PROVIDER"] = COHERE
    /\ _provider = OPENAI /\ ~_use_pseudo

\* C17: when the retry executor raises for a chunk (an attempt ends with
\* neither a result nor a backoff), generate_batch ends there: the error goes
\* to the caller, no further request or sleep is made for a later chunk, and
\* no chunk index is ever gone back to; requests are made again only when the
\* caller starts a new operation.
C17_FailedChunkAborts ==
    /\ [][(op = "generate_batch" /\ pc = "calling"
              /\ pc' \notin {"sleeping", "extend"})
            => /\ pc' = "idle" /\ outcome' = "raised" /\ ~ret'.has
               /\ error'.exc # "none"
               /\ op' = op /\ texts' = texts
               /\ in_flight' = 0
               /\ totalCalls' = totalCalls /\ totalSleeps' = totalSleeps
               /\ invocations' = invocations]_vars
    /\ [][(pc # "idle" /\ pc' # "idle") => i' >= i]_vars
    /\ [][(pc = "idle" /\ pc' # "idle")
            => (outcome' = "none" /\ i' = 0 /\ totalCalls' = 1
                  /\ totalSleeps' = 0 /\ invocations' <= 1)]_vars

C17_Witness ==
    /\ BatchDone /\ outcome = "raised"
    /\ Len(texts) > 2 * ClaimedLimit(_provider)
    /\ invocations = 2 /\ totalSleeps >= 1 /\ in_flight = 0

\* What a provider answers to a request, and the answers to the chunks of a
\* list of texts, concatenated in chunk order.
ResponseFor(p, req) == [k \in 1..Len(req) |-> ProviderVector(p, req[k])]
RECURSIVE ConcatChunks(_, _, _, _)
ConcatChunks(p, L, k, start) ==
    IF start >= Len(L)
    THEN <<>>
    ELSE ResponseFor(p, SubSeq(L, start + 1, Min(start + k, Len(L))))
            \o ConcatChunks(p, L, k, start + k)

\* C18: the vectors collected by a provider-mode generate_batch are at every
\* moment the concatenation, in chunk order, of the results of the chunks
\* completed so far, one result per chunk (that of its successful attempt,
\* failed attempts adding nothing), and the returned list is the
\* concatenation over all chunks.
C18_Concatenation ==
    /\ (op = "generate_batch" /\ pc \in {"calling", "sleeping", "extend"})
          => /\ Len(all_embeddings) = i
             /\ all_embeddings =
                   ConcatChunks(_provider, SubSeq(texts, 1, i),
                                ClaimedLimit(_provider), 0)
    /\ (op = "generate_batch" /\ pc = "extend" /\ embeddings.has)
          => embeddings.val = ResponseFor(_provider, chunk)
    /\ (BatchDone /\ outcome = "returned" /\ ~_use_pseudo /\ texts # <<>>)
          => /\ ret.has
             /\ ret.val = ConcatChunks(_provider, texts,
                                       ClaimedLimit(_provider), 0)

C18_Witness ==
    /\ op = "generate_batch" /\ pc = "extend" /\ embeddings.has
    /\ i > 0 /\ Len(all_embeddings) = i
    /\ fails >= 1 /\ totalCalls > invocations

\* C19: in provider mode generate(text) sends the one-element list [text]
\* through the adapter of the bound provider and returns the first element of
\* its result; in pseudo mode it returns the deterministic vector and sends
\* nothing.
C19_GenerateSingle ==
    (op = "generate")
        => /\ (pc = "calling")
                 => /\ ~_use_pseudo /\ _provider \in {ELASTIC, OPENAI, COHERE}
                    /\ chunk = <<texts[1]>>
                    /\ totalCalls = 1 /\ in_flight = 1
           /\ (pc = "idle" /\ outcome = "returned" /\ ~_use_pseudo)
                 => /\ ret.has
                    /\ ret.val = ProviderVector(_provider, texts[1])
                    /\ totalCalls = 1
           /\ _use_pseudo
                 => /\ pc = "idle" /\ outcome = "returned" /\ ret.has
                    /\ ret.val = [by |-> PSEUDO, of |-> texts[1], dims |-> 384]
                    /\ totalCalls = 0 /\ in_flight = 0

C19_Witness ==
    /\ op = "generate" /\ pc = "idle" /\ outcome = "returned"
    /\ _provider = OPENAI /\ ~_use_pseudo
    /\ ret.has /\ ret.val = ProviderVector(OPENAI, texts[1])

\* C20: a malformed provider response ends the call with an error for the
\* caller: nothing is taken from the response, the retry executor neither
\* sleeps nor retries after it, and generate_batch sends no later chunk.
C20_MalformedResponse ==
    /\ (malformed > 0)
          => /\ malformed = 1
             /\ pc = "idle" /\ outcome = "raised" /\ error = KeyError
             /\ ~ret.has /\ ret.val = <<>> /\ all_embeddings = <<>>
             /\ in_flight = 0 /\ delay = 0
             /\ (op = "generate") => (totalCalls = 1 /\ totalSleeps = 0)
             /\ (op = "generate_batch")
                   => (attempts = fails /\ sleeps = fails - 1)
    /\ (pc = "sleeping") => e.exc = "HTTPError"

C20_Witness ==
    /\ malformed = 1 /\ BatchDone /\ error = KeyError
    /\ Len(texts) > 2 * ClaimedLimit(_provider)
    /\ invocations = 2 /\ fails = 2 /\ sleeps = 1

\* The credentials of RequiredCredentials(p) that the environment lacks.
MissingOf(p) == { c \in RequiredCredentials(p) : ~PresentNonEmpty(c) }

\* C21 (as claimed): when construction fails for missing credentials, the
\* error names exactly the credentials that are absent or empty.
C21_NamesMissing ==
    (pc = "failed" /\ NormalisedName \in {ELASTIC, OPENAI, COHERE})
        => /\ ctor_error.exc = "ValueError"
           /\ ctor_error.requires = MissingOf(NormalisedName)

\* C21 (amended): when construction fails for missing credentials, the error
\* names the provider and every credential that provider requires, whichever
\* of them are absent or empty: the missing ones are always among those named,
\* and for elastic with one credential missing the other is named as well.
C21_NamesRequired ==
    (pc = "failed" /\ NormalisedName \in {ELASTIC, OPENAI, COHERE})
        => /\ ctor_error.exc = "ValueError"
           /\ ctor_error.provider = NormalisedName
           /\ ctor_error.unknown = None
           /\ MissingOf(NormalisedName) # {}
           /\ MissingOf(NormalisedName) \subseteq ctor_error.requires
           /\ ctor_error.requires =
                 (CASE NormalisedName = ELASTIC
                         -> {"ELASTIC_URL", "ELASTIC_API_KEY"}
                    [] NormalisedName = OPENAI -> {"OPENAI_API_KEY"}
                    [] NormalisedName = COHERE -> {"COHERE_API_KEY"})

C21_Witness ==
    /\ pc = "failed" /\ _provider = ELASTIC
    /\ environ["ELASTIC_URL"] = None
    /\ environ["ELASTIC_API_KEY"] = <<"k">>
    /\ ctor_error.requires = {"ELASTIC_URL", "ELASTIC_API_KEY"}

\* The generator's field that holds credential c.
CredentialField(c) ==
    CASE c = "ELASTIC_URL" -> _elastic_url
      [] c = "ELASTIC_API_KEY" -> _elastic_api_key
      [] c = "OPENAI_API_KEY" -> _openai_api_key
      [] c = "COHERE_API_KEY" -> _cohere_api_key

\* C22: after a successful construction the configuration is valid: the
\* provider is empty with the pseudo flag set, or it is elastic, openai or
\* cohere with every credential of its own non-empty and the flag clear.
\* No operation then raises a configuration error, the dispatch for the bound
\* provider yields the result of that provider's adapter (it never falls
\* through to None, so no TypeError reaches the caller), and the batch limit
\* looked up for it is its table entry.
C22_ValidConfiguration ==
    (pc \notin {"new", "failed"})
        => /\ ctor_error = NoCtorError
           /\ \/ _provider = <<>> /\ _use_pseudo
              \/ /\ ~_use_pseudo
                 /\ _provider \in {ELASTIC, OPENAI, COHERE}
                 /\ \A c \in RequiredCredentials(_provider) :
                       CredentialField(c) \notin {None, <<>>, Unset}
           /\ error.exc \in {"none", "HTTPError", "KeyError"}
           /\ ~_use_pseudo
                 => /\ _call_provider(_provider, <<0>>)
                          = Some(<<ProviderVector(_provider, 0)>>)
                    /\ BatchLimitGet(_provider) = ClaimedLimit(_provider)
                    /\ ClaimedLimit(_provider) \in {10, 100, 96}
           /\ (pc = "calling") => ~_use_pseudo

C22_Witness ==
    /\ pc = "idle" /\ op = "generate" /\ outcome = "returned"
    /\ provider_arg = <<" ", "E", "l", "a", "s", "t", "i", "c", " ">>
    /\ _provider = ELASTIC /\ ~_use_pseudo
    /\ environ["OPENAI_API_KEY"] = None /\ environ["COHERE_API_KEY"] = <<>>
    /\ _elastic_url = <<"k">> /\ _elastic_api_key = <<"k">>

\* The claimed bounds, in milliseconds, of the sleep after 0-based attempt a.
ClaimedSleepLow(a) == CASE a = 0 -> 500 [] a = 1 -> 1000 [] a = 2 -> 2000
ClaimedSleepHigh(a) == CASE a = 0 -> 1000 [] a = 1 -> 1500 [] a = 2 -> 2500

C24_SamePseudoVector ==
    (op = "generate" /\ pc = "idle" /\ _use_pseudo /\ outcome = "returned")
        => /\ ret.has
           /\ ret.val.dims = seed_pseudo_vector(texts[1], SEED_DEFAULT_DIMS).dims
           /\ ret.val = seed_pseudo_vector(texts[1], SEED_DEFAULT_DIMS)

\* C25: the retry budget is per chunk.  Whatever earlier chunks spent, each
\* invocation of the retry executor starts at attempt 0 and may make 4
\* attempts; a batch that has started c chunks has made at most 4c adapter
\* calls and 3c sleeps, c being at most ceil(n/k); and a retry sends the very
\* chunk its first attempt sent.
C25_BudgetPerChunk ==
    /\ []((op = "generate_batch" /\ invocations > 0)
            => /\ totalCalls <= 4 * invocations
               /\ totalSleeps <= 3 * invocations
               /\ (pc \in {"calling", "sleeping"})
                     => /\ attempt = attempts - 1 /\ attempt <= 3
                        /\ invocations <=
                              CeilDiv(Len(texts), ClaimedLimit(_provider))
                        /\ totalCalls >= invocations - 1 + attempts)
    /\ [][(invocations' = invocations + 1)
            => (attempt' = 0 /\ attempts' = 1 /\ fails' = 0)]_vars
    /\ [][(pc \in {"calling", "sleeping"} /\ pc' \in {"calling", "sleeping"})
            => (chunk' = chunk /\ i' = i /\ invocations' = invocations)]_vars

C25_Witness ==
    /\ op = "generate_batch" /\ pc = "calling"
    /\ invocations = 3 /\ attempt = 3
    /\ totalCalls = 12 /\ totalSleeps = 9

\* C26: when every adapter call is answered and every sleep ends, every
\* invocation of the retry executor ends, and every generate_batch call ends.
\* The retry executor ends in one of two ways: with the result of the attempt
\* that succeeded, or, at the step of a failing attempt, with that attempt's
\* error; it is never left with no result (no None reaches extend, no
\* TypeError reaches the caller).
C26_Termination ==
    /\ [](/\ (pc = "extend") => embeddings.has
          /\ error.exc # "TypeError"
          /\ (pc = "sleeping") => attempt < 3)
    /\ [][(in_retry /\ ~in_retry')
            => \/ /\ pc = "calling" /\ pc' = "extend"
                  /\ embeddings'.has
                  /\ embeddings'.val = ResponseFor(_provider, chunk)
               \/ /\ pc = "calling" /\ pc' = "idle"
                  /\ outcome' = "raised" /\ ~ret'.has
                  /\ error'.exc \in {"HTTPError", "KeyError"}
                  /\ fails' = fails + 1]_vars
    /\ in_retry ~> ~in_retry
    /\ (pc \in {"calling", "sleeping", "extend"}) ~> (pc = "idle")

C26_Witness ==
    /\ BatchDone /\ outcome = "raised" /\ error = HTTPError(503)
    /\ invocations = 2 /\ attempts = 4 /\ fails = 4 /\ sleeps = 3
    /\ ~in_retry

\* The normal form the claim gives to each name a caller may supply.
ClaimedNormalForm(name) ==
    CASE name = <<" ", "E", "l", "a", "s", "t", "i", "c", " ">> -> ELASTIC
      [] name = <<"O", "P", "E", "N", "A", "I">> -> OPENAI
      [] name = <<"B", "o", "g", "u", "s", " ">> -> BOGUS
      [] name = <<" ", " ">> -> <<>>
      [] OTHER -> name

\* C27: the provider name is lower-cased and stripped of surrounding
\* whitespace before it is matched: " Elastic " and "OPENAI" select elastic
\* and openai (construction then depends on their credentials only, and no
\* unknown-provider error is raised), and an argument of whitespace only
\* selects pseudo mode whatever EMBEDDING_PROVIDER holds, without error.
C27_NameNormalised ==
    Constructed
        => /\ _provider = ClaimedNormalForm(GivenName)
           /\ (GivenName \in { <<" ", "E", "l", "a", "s", "t", "i", "c", " ">>,
                               <<"O", "P", "E", "N", "A", "I">> })
                 => /\ ~_use_pseudo
                    /\ ctor_error.unknown = None
                    /\ (pc = "failed") => ctor_error.requires # {}
                    /\ (\A n \in EnvNames \ {"EMBEDDING_PROVIDER"} :
                            environ[n] = <<"k">>)
                          => (pc # "failed" /\ provider_name = _provider)
           /\ (provider_arg = <<" ", " ">>)
                 => /\ _provider = <<>> /\ _use_pseudo
                    /\ pc # "failed" /\ ctor_error = NoCtorError
                    /\ provider_name = PSEUDO

C27_Witness ==
    /\ provider_arg = <<" ", " ">>
    /\ environ["EMBEDDING_PROVIDER"] = BOGUS
    /\ pc = "idle" /\ _use_pseudo /\ provider_name = PSEUDO
    /\ op = "generate" /\ outcome = "returned"

====
